---------------------------- MODULE Spec2Model ----------------------------
(***************************************************************************)
(* Session registry (GameManager), disconnect protocol (user_disconnected), *)
(* recovery-token bookkeeping (Urids) and one session (GameInstance) of    *)
(* Acquire_rs_web.                                                         *)
(*                                                                         *)
(* Vectors are sequences (1-based; the source's index i is i+1 here), an   *)
(* Option is a sequence of length at most one (None = <<>>, Some(x) =      *)
(* <<x>>).  A panic raised while the registry is exclusively held poisons  *)
(* the RwLock: `poisoned` records it, and every later lock().unwrap()      *)
(* panics in turn.                                                         *)
(***************************************************************************)
EXTENDS Integers, Sequences, FiniteSets, TLC

\* ------------------------------------------------------------------ bounds
\* number of distinct user ids the generator can draw (1..=i32::MAX in the code)
NumUserIds == 3
\* number of distinct game codes the generator can draw (34^8 in the code)
NumGameCodes == 2
\* number of concurrently running user_disconnected invocations
NumThreads == 2
\* number of distinct recovery tokens (Uuid::new_v4 in the code)
NumUrids == 2
\* live registrations counted per recovery token (history counter cap)
MaxRegs == 2

UserIds == 1..NumUserIds
GameCodes == 1..NumGameCodes
Threads == 1..NumThreads
UridValues == 1..NumUrids
Usernames == {"Alice", "Bob"}
IpAddrs == {"ip1", "ip2"}

None == <<>>
Some(x) == <<x>>
\* The ip address a create or join request hands over: the routes without the
\* client's address (create_game_without_ip, join_game_without_ip).  The routes
\* with it differ only in the User.ip_address they store, which nothing reads.
RequestIps == {None}

VARIABLES
    games,            \* GameManager.games: Vec<GameInstance>
    users,            \* GameManager.users: Vec<User>
    used_user_ids,    \* GameManager.used_user_ids: Vec<i32>
    used_game_codes,  \* GameManager.used_game_codes: Vec<GameCode>
    poisoned,         \* the RwLock<GameManager> is poisoned by a panic
    disc,             \* the running user_disconnected invocations
    marked,           \* history: ids marked connected and not since marked disconnected
    last,             \* history: the last direct call and what it returned
    used_urids,       \* Urids.used_urids: HashSet<Urid>
    urid_by_ip,       \* Urids.urid_by_ip: HashMap<IpAddr, Urid>
    regs,             \* history: live registrations (Urids::register) per token
    instance,         \* one GameInstance, as its own methods act on it
    conv,             \* one GameCode conversion: its input and what it returned
    req,              \* one request for /api/players_in_game on its way
    busy,             \* one request for /api/debug/keep_busy on its way
    sse,              \* one request for /sse/<game_code>/<user_id> on its way
    sleepers          \* history: the sleeping invocations, the first to sleep first

gmVars == <<games, users, used_user_ids, used_game_codes>>
uridVars == <<used_urids, urid_by_ip, regs>>
vars == <<games, users, used_user_ids, used_game_codes, poisoned, disc, marked,
          last, used_urids, urid_by_ip, regs, instance, conv,
          req, busy, sse, sleepers>>

\* ----------------------------------------------------------------- helpers
Range(s) == {s[i] : i \in DOMAIN s}
Contains(s, x) == \E i \in DOMAIN s : s[i] = x
MinOf(S) == CHOOSE m \in S : \A n \in S : m <= n
MaxOf(S) == CHOOSE m \in S : \A n \in S : m >= n
\* Vec::remove(i) for an index inside the vector
RemoveAt(s, i) == SubSeq(s, 1, i - 1) \o SubSeq(s, i + 1, Len(s))

RECURSIVE Ascending(_)
Ascending(S) ==
    IF S = {} THEN <<>>
    ELSE LET m == MinOf(S) IN <<m>> \o Ascending(S \ {m})

\* The registry as one value, as the methods of GameManager see it.
GM == [games |-> games, users |-> users, used_user_ids |-> used_user_ids,
       used_game_codes |-> used_game_codes]

SetGM(gm) ==
    /\ games' = gm.games
    /\ users' = gm.users
    /\ used_user_ids' = gm.used_user_ids
    /\ used_game_codes' = gm.used_game_codes

\* EventData::new: player 0 addresses every player of the game; game_code is
\* the text of the code, which is kept as the code it is the text of
EventData(player, game_code, data) ==
    [player |-> player, game_code |-> game_code, data |-> data]

\* User::new: a fresh user is not connected
NewUser(ip_address, username, user_id) ==
    [ip_address |-> ip_address, username |-> username, user_id |-> user_id,
     connected |-> FALSE]

\* Player::new: a fresh player is not the game master
NewPlayer(name, id) == [name |-> name, id |-> id, game_master |-> FALSE]

\* enum GameState
GameStates == {"Lobby"}

\* GameInstance::new
NewGameInstance(code) ==
    [players |-> <<>>, game_code |-> code, game_state |-> "Lobby"]

\* GameInstance::add_player, as create_game and add_player_to_game call it: the
\* push behind the match on game_state
add_player(game, name, id) ==
    IF game.game_state = "Lobby"
    THEN [game EXCEPT !.players = Append(@, NewPlayer(name, id))]
    ELSE game

\* GameInstance::player_by_uuid_mut: the position of the first player with the
\* uuid, 0 when there is none
player_by_uuid_mut(game, uuid) ==
    LET found == {i \in DOMAIN game.players : game.players[i].id = uuid}
    IN IF found = {} THEN 0 ELSE MinOf(found)

\* set_game_master without the loop that revokes the other game masters
set_game_master_no_revoke(game, id) ==
    IF player_by_uuid_mut(game, id) # 0
    THEN [game EXCEPT !.players[player_by_uuid_mut(game, id)].game_master = TRUE]
    ELSE game

\* set_game_master whose loop revokes every game master, without the test
\* `player.uuid() != uuid`
set_game_master_revoke_all(game, id) ==
    IF player_by_uuid_mut(game, id) # 0
    THEN [game EXCEPT !.players =
            [i \in DOMAIN game.players |->
                [game.players[i] EXCEPT !.game_master = FALSE]]]
    ELSE game

\* set_game_master that revokes the game masters before it looks for the player
set_game_master_revoke_first(game, id) ==
    LET revoked == [i \in DOMAIN game.players |->
                        [game.players[i] EXCEPT !.game_master = FALSE]]
    IN IF player_by_uuid_mut(game, id) # 0
       THEN [game EXCEPT !.players =
                [revoked EXCEPT ![player_by_uuid_mut(game, id)].game_master = TRUE]]
       ELSE [game EXCEPT !.players = revoked]

\* GameInstance::set_game_master
set_game_master(game, id) ==
    IF \E i \in DOMAIN game.players : game.players[i].id = id
    THEN LET first == MinOf({i \in DOMAIN game.players : game.players[i].id = id})
             made == [game.players EXCEPT ![first].game_master = TRUE]
         IN [game EXCEPT !.players =
                [i \in DOMAIN made |->
                    IF made[i].game_master /\ made[i].id # id
                    THEN [made[i] EXCEPT !.game_master = FALSE]
                    ELSE made[i]]]
    ELSE game

\* ------------------------------------------------------------ GameManager
\* GameManager::game_by_code / game_by_code_mut: index of the first game with
\* the code, 0 when there is none
game_index_by_code(gm, code) ==
    LET found == {i \in DOMAIN gm.games : gm.games[i].game_code = code}
    IN IF found = {} THEN 0 ELSE MinOf(found)

game_by_code(gm, code) ==
    LET i == game_index_by_code(gm, code)
    IN IF i = 0 THEN None ELSE Some(gm.games[i])

\* GameManager::game_by_user_id: the first game one of whose players has the id
game_by_user_id(gm, id) ==
    LET found == {i \in DOMAIN gm.games :
                    \E p \in DOMAIN gm.games[i].players :
                        gm.games[i].players[p].id = id}
    IN IF found = {} THEN None ELSE Some(gm.games[MinOf(found)])

\* GameManager::does_game_exist
does_game_exist(gm, code) == Contains(gm.used_game_codes, code)

\* players_in_game that collects the names from the last player to the first
players_in_game_reversed(gm, code) ==
    LET g == game_by_code(gm, code)
    IN IF g = None THEN None
       ELSE Some([i \in DOMAIN g[1].players |->
                    g[1].players[Len(g[1].players) + 1 - i].name])

\* GameManager::players_in_game
players_in_game(gm, code) ==
    LET g == game_by_code(gm, code)
    IN IF g = None THEN None
       ELSE Some([i \in DOMAIN g[1].players |-> g[1].players[i].name])

\* generate_game_code without the check against used_game_codes
generate_game_code_unchecked(gm) == GameCodes

\* GameManager::generate_game_code: the codes the loop can return
generate_game_code(gm) == {c \in GameCodes : ~Contains(gm.used_game_codes, c)}

\* generate_user_id without the check against used_user_ids
generate_user_id_unchecked(gm) == UserIds

\* GameManager::generate_user_id: the ids the loop can return
generate_user_id(gm) == {n \in UserIds : ~Contains(gm.used_user_ids, n)}

\* create_game without the call game.set_game_master(user.id())
create_game_no_master(gm, username, ip_address, code, user_id) ==
    LET user == NewUser(ip_address, username, user_id)
        game == add_player(NewGameInstance(code), user.username, user.user_id)
    IN [gm |-> [games |-> Append(gm.games, game),
                users |-> Append(gm.users, user),
                used_user_ids |-> Append(gm.used_user_ids, user_id),
                used_game_codes |-> Append(gm.used_game_codes, code)],
        ret |-> Some([user_id |-> user_id, game_code |-> code,
                      ip_address_send |-> ip_address # None])]

\* GameManager::create_game with the code and id the generators drew
create_game(gm, username, ip_address, code, user_id) ==
    LET user == NewUser(ip_address, username, user_id)
        game == set_game_master(
                    add_player(NewGameInstance(code), user.username, user.user_id),
                    user.user_id)
    IN [gm |-> [games |-> Append(gm.games, game),
                users |-> Append(gm.users, user),
                used_user_ids |-> Append(gm.used_user_ids, user_id),
                used_game_codes |-> Append(gm.used_game_codes, code)],
        ret |-> Some([user_id |-> user_id, game_code |-> code,
                      ip_address_send |-> ip_address # None])]

\* add_player_to_game with the push to used_user_ids and the notification
\* outside `if player_added`
add_player_to_game_unguarded(gm, game_code, username, ip_address, user_id) ==
    LET g == game_index_by_code(gm, game_code)
    IN IF g # 0
       THEN [gm |-> [games |-> [gm.games EXCEPT
                                   ![g] = add_player(@, username, user_id)],
                     users |-> Append(gm.users,
                                      NewUser(ip_address, username, user_id)),
                     used_user_ids |-> Append(gm.used_user_ids, user_id),
                     used_game_codes |-> gm.used_game_codes],
             ret |-> Some([user_id |-> user_id, game_code |-> game_code,
                           ip_address_send |-> ip_address # None]),
             event |-> Some(EventData(0, game_code,
                                     <<"AddPlayer", username>>))]
       ELSE [gm |-> [gm EXCEPT !.used_user_ids = Append(@, user_id)],
             ret |-> None,
             event |-> Some(EventData(0, game_code,
                                     <<"AddPlayer", username>>))]

\* add_player_to_game without the event.send
add_player_to_game_silent(gm, game_code, username, ip_address, user_id) ==
    LET g == game_index_by_code(gm, game_code)
    IN IF g # 0
       THEN [gm |-> [games |-> [gm.games EXCEPT
                                   ![g] = add_player(@, username, user_id)],
                     users |-> Append(gm.users,
                                      NewUser(ip_address, username, user_id)),
                     used_user_ids |-> Append(gm.used_user_ids, user_id),
                     used_game_codes |-> gm.used_game_codes],
             ret |-> Some([user_id |-> user_id, game_code |-> game_code,
                           ip_address_send |-> ip_address # None]),
             event |-> None]
       ELSE [gm |-> gm, ret |-> None, event |-> None]

\* GameManager::add_player_to_game with the id the generator drew
add_player_to_game(gm, game_code, username, ip_address, user_id) ==
    LET g == game_index_by_code(gm, game_code)
    IN IF g # 0
       THEN [gm |-> [games |-> [gm.games EXCEPT
                                   ![g] = add_player(@, username, user_id)],
                     users |-> Append(gm.users,
                                      NewUser(ip_address, username, user_id)),
                     used_user_ids |-> Append(gm.used_user_ids, user_id),
                     used_game_codes |-> gm.used_game_codes],
             ret |-> Some([user_id |-> user_id, game_code |-> game_code,
                           ip_address_send |-> ip_address # None]),
             event |-> Some(EventData(0, game_code,
                                     <<"AddPlayer", username>>))]
       ELSE [gm |-> gm, ret |-> None, event |-> None]

\* The indices delete_game collects in users_to_remove: for each player of the
\* game, in order, the index of every user with the player's id
RECURSIVE users_to_remove(_, _)
users_to_remove(players, us) ==
    IF players = <<>> THEN <<>>
    ELSE Ascending({i \in DOMAIN us : us[i].user_id = Head(players).id})
         \o users_to_remove(Tail(players), us)

\* `for user_index in users_to_remove { self.users.remove(user_index) }`:
\* the indices were taken before the first removal; Vec::remove panics on an
\* index that is not inside the vector
RECURSIVE remove_users(_, _)
remove_users(us, idxs) ==
    IF idxs = <<>> THEN [users |-> us, panic |-> FALSE]
    ELSE IF Head(idxs) > Len(us) THEN [users |-> us, panic |-> TRUE]
    ELSE remove_users(RemoveAt(us, Head(idxs)), Tail(idxs))

\* GameManager::delete_game, the branch `if game_found`.  panic: the call
\* panicked, gm is the registry as the panic left it.
delete_found_game(gm, game_code) ==
    LET found == {i \in DOMAIN gm.games : gm.games[i].game_code = game_code}
        game_to_remove == MaxOf(found)
        codes == {i \in DOMAIN gm.used_game_codes :
                    gm.used_game_codes[i] = game_code}
        code_to_remove == IF codes = {} THEN 1 ELSE MaxOf(codes)
    IN IF code_to_remove > Len(gm.used_game_codes)
       THEN [gm |-> gm, ret |-> FALSE, panic |-> TRUE]
       ELSE
       LET used == RemoveAt(gm.used_game_codes, code_to_remove)
           idxs == users_to_remove(gm.games[MinOf(found)].players, gm.users)
           rem == remove_users(gm.users, idxs)
       IN IF rem.panic
          THEN [gm |-> [gm EXCEPT !.used_game_codes = used,
                                  !.users = rem.users],
                ret |-> FALSE, panic |-> TRUE]
          ELSE [gm |-> [gm EXCEPT !.used_game_codes = used,
                                  !.users = rem.users,
                                  !.games = RemoveAt(gm.games, game_to_remove)],
                ret |-> TRUE, panic |-> FALSE]

\* delete_game with the removal from used_game_codes outside `if game_found`:
\* code_to_remove keeps its initial value 0 when the code is not found
delete_game_code_unguarded(gm, game_code) ==
    IF \E i \in DOMAIN gm.games : gm.games[i].game_code = game_code
    THEN delete_found_game(gm, game_code)
    ELSE [gm |-> [gm EXCEPT !.used_game_codes =
                        IF @ = <<>> THEN @ ELSE RemoveAt(@, 1)],
          ret |-> FALSE, panic |-> FALSE]

\* GameManager::delete_game
delete_game(gm, game_code) ==
    IF \E i \in DOMAIN gm.games : gm.games[i].game_code = game_code
    THEN delete_found_game(gm, game_code)
    ELSE [gm |-> gm, ret |-> FALSE, panic |-> FALSE]

\* user_connected that reports success without looking for the user
user_connected_unchecked(gm, user_id) == [gm |-> gm, ret |-> TRUE]

\* GameManager::user_connected
user_connected(gm, user_id) ==
    LET found == {i \in DOMAIN gm.users : gm.users[i].user_id = user_id}
    IN IF found = {} THEN [gm |-> gm, ret |-> FALSE]
       ELSE [gm |-> [gm EXCEPT !.users[MinOf(found)].connected = TRUE],
             ret |-> TRUE]

\* users_connected that asks for every player to be connected
users_connected_all(gm, game_code) ==
    LET g == game_by_code(gm, game_code)
    IN IF g = None THEN None
       ELSE Some(\A p \in DOMAIN g[1].players : \E u \in DOMAIN gm.users :
                    /\ g[1].players[p].id = gm.users[u].user_id
                    /\ gm.users[u].connected)

\* GameManager::users_connected
users_connected(gm, game_code) ==
    LET g == game_by_code(gm, game_code)
    IN IF g = None THEN None
       ELSE Some(\E p \in DOMAIN g[1].players : \E u \in DOMAIN gm.users :
                    /\ g[1].players[p].id = gm.users[u].user_id
                    /\ gm.users[u].connected)

\* ------------------------------------------------------------------ Urids
UR == [used_urids |-> used_urids, urid_by_ip |-> urid_by_ip]

SetUR(ur) ==
    /\ used_urids' = ur.used_urids
    /\ urid_by_ip' = ur.urid_by_ip

\* HashMap::insert / HashMap::remove on a map kept as a function
MapInsert(m, k, v) == [x \in DOMAIN m \cup {k} |-> IF x = k THEN v ELSE m[x]]
MapRemove(m, k) == [x \in DOMAIN m \ {k} |-> m[x]]

\* Urids::generate_urid: the tokens the loop can return
generate_urid(ur) == {u \in UridValues : u \notin ur.used_urids}

\* add_urid with the insert into urid_by_ip not guarded by contains_key
add_urid_overwriting(ur, urid, ip_addr) ==
    [ur |-> [used_urids |-> ur.used_urids \cup {urid},
             urid_by_ip |->
                IF ip_addr # None
                THEN MapInsert(ur.urid_by_ip, ip_addr[1], urid)
                ELSE ur.urid_by_ip],
     ret |-> urid \notin ur.used_urids]

\* Urids::add_urid
add_urid(ur, urid, ip_addr) ==
    [ur |-> [used_urids |-> ur.used_urids \cup {urid},
             urid_by_ip |->
                IF ip_addr # None /\ ip_addr[1] \notin DOMAIN ur.urid_by_ip
                THEN MapInsert(ur.urid_by_ip, ip_addr[1], urid)
                ELSE ur.urid_by_ip],
     ret |-> urid \notin ur.used_urids]

\* Urids::register with the token generate_urid drew
register(ur, ip_addr, urid) ==
    IF ip_addr # None
    THEN IF ip_addr[1] \in DOMAIN ur.urid_by_ip
         THEN [ur |-> ur, ret |-> ur.urid_by_ip[ip_addr[1]]]
         ELSE [ur |-> [used_urids |-> ur.used_urids \cup {urid},
                       urid_by_ip |-> MapInsert(ur.urid_by_ip, ip_addr[1], urid)],
               ret |-> urid]
    ELSE [ur |-> [ur EXCEPT !.used_urids = @ \cup {urid}], ret |-> urid]

\* The values ip_to_remove can end with in Urids::unregister: the last matching
\* key in the HashMap's iteration order, which is any of the matching keys
unregister_ip_to_remove(ur, urid) ==
    LET hit == {k \in DOMAIN ur.urid_by_ip : ur.urid_by_ip[k] = urid}
    IN IF hit = {} THEN {None} ELSE {Some(k) : k \in hit}

\* Urids::unregister, ip_to_remove being one of unregister_ip_to_remove
unregister(ur, urid, ip_to_remove) ==
    [used_urids |-> ur.used_urids \ {urid},
     urid_by_ip |-> IF ip_to_remove # None
                    THEN MapRemove(ur.urid_by_ip, ip_to_remove[1])
                    ELSE ur.urid_by_ip]

\* Urids::unregister_all
unregister_all(ur, urids) ==
    LET ips_to_remove == {k \in DOMAIN ur.urid_by_ip : ur.urid_by_ip[k] \in urids}
    IN [used_urids |-> ur.used_urids \ urids,
        urid_by_ip |-> [x \in DOMAIN ur.urid_by_ip \ ips_to_remove |->
                            ur.urid_by_ip[x]]]

\* ---------------------------------------------------------------- GameCode
\* GAME_CODE_CHARSET: the characters a game code is made of
GAME_CODE_CHARSET ==
    {"0", "1", "2", "3", "4", "5", "6", "7", "8", "9", "A", "B", "C", "D", "E",
     "F", "G", "H", "I", "J", "K", "L", "M", "N", "O", "P", "Q", "R", "S", "T",
     "U", "V", "W", "Z"}

\* GameCode.game_code: [char; 8]
CodeLen == 8
\* from_string: the longest string it reads (string.len() > 9 is refused)
MaxCodeStringLen == 9
\* from_string: the index of the separator (index != 4)
SeparatorIndex == 4
\* to_string: where the characters are split (split_at(4))
SplitAt == 4

\* GameCode::from_string, the loop over string.chars().enumerate() from the
\* 0-based index on; game_code is the array written so far
RECURSIVE from_string_loop(_, _, _, _)
from_string_loop(string, index, game_code, second_half) ==
    IF index >= Len(string) THEN Some(game_code)
    ELSE LET char == string[index + 1]
         IN IF index # SeparatorIndex
            THEN IF char \in GAME_CODE_CHARSET
                 THEN from_string_loop(string, index + 1,
                        [game_code EXCEPT
                            ![(IF second_half THEN index - 1 ELSE index) + 1] = char],
                        second_half)
                 ELSE None
            ELSE IF char # "-"
                 THEN None
                 ELSE from_string_loop(string, index + 1, game_code, TRUE)

\* GameCode::from_string
from_string(string) ==
    IF Len(string) > MaxCodeStringLen
    THEN None
    ELSE from_string_loop(string, 0, [i \in 1..CodeLen |-> "a"], FALSE)

\* GameCode::to_string split one character early
to_string_split_early(game_code) ==
    SubSeq(game_code, 1, SplitAt - 1) \o <<"-">>
        \o SubSeq(game_code, SplitAt, Len(game_code))

\* GameCode::to_string
to_string(game_code) ==
    SubSeq(game_code, 1, SplitAt) \o <<"-">>
        \o SubSeq(game_code, SplitAt + 1, Len(game_code))

\* no conversion is asked for
NoConversion == [pc |-> "idle", string |-> <<>>, code |-> None, back |-> None]

\* -------------------------------------------------------------------- Init
\* no request for an event stream is on its way
NoStream == [pc |-> "idle", user_id |-> 0, game_code |-> 0]
\* no request for /api/players_in_game is on its way
NoRequest == [pc |-> "idle", game_code |-> 0]
NoCall == [op |-> "none", arg |-> None, ret |-> None, event |-> None]
IdleThread == [pc |-> "idle", user_id |-> 0, game_code |-> 0, status |-> "None"]

GameManagerInit ==
    /\ games = <<>>
    /\ users = <<>>
    /\ used_user_ids = <<>>
    /\ used_game_codes = <<>>
    /\ poisoned = FALSE
    /\ disc = [t \in Threads |-> IdleThread]
    /\ sleepers = <<>>
    /\ marked = {}
    /\ last = NoCall
    /\ used_urids = {}
    /\ urid_by_ip = [x \in {} |-> 0]
    /\ regs = [u \in UridValues |-> 0]
    /\ instance = NewGameInstance(1)

Init ==
    /\ GameManagerInit
    /\ conv = NoConversion
    /\ req = NoRequest
    /\ busy = "idle"
    /\ sse = NoStream

\* ---------------------------------------------- request handlers (routes)
\* A guard of the registry's RwLock alive for as long as an invocation of
\* user_disconnected sleeps
lock_free_unless_sleeping ==
    /\ \A t \in Threads : disc[t].pc \in {"idle", "done"}
    /\ busy \notin {"first_hold", "second_hold"}

\* game_manager.write() and read() return at once: no guard of the registry's
\* RwLock is alive.  A handler drops its guard where it returns, and
\* user_disconnected drops the guard of each of its two blocks where the
\* block ends: it holds none while it has not started, sleeps or is done.
\* debug_busy keeps its write guard over the sleeps inside its two blocks.
lock_free ==
    /\ \A t \in Threads : disc[t].pc \in {"idle", "sleep", "done"}
    /\ busy \notin {"first_hold", "second_hold"}

\* POST /api/create_game (with or without the client's ip address)
CreateGame(username, ip_address) ==
    /\ lock_free
    /\ ~poisoned
    /\ \E code \in generate_game_code(GM) : \E user_id \in generate_user_id(GM) :
          SetGM(create_game(GM, username, ip_address, code, user_id).gm)
    /\ UNCHANGED <<poisoned, disc, sleepers, marked, last, uridVars, instance, conv, req, busy, sse>>

\* POST /api/join_game: the GameCode guard ran in an earlier critical section,
\* so the game may be gone when the handler takes the lock
JoinGame(game_code, username, ip_address) ==
    /\ lock_free
    /\ ~poisoned
    /\ \E user_id \in generate_user_id(GM) :
          SetGM(add_player_to_game(GM, game_code, username, ip_address, user_id).gm)
    /\ UNCHANGED <<poisoned, disc, sleepers, marked, last, uridVars, instance, conv, req, busy, sse>>

\* GET /sse/<game_code>/<user_id>: marks the user connected
Events(user_id) ==
    /\ lock_free
    /\ ~poisoned
    /\ LET r == user_connected(GM, user_id)
       IN /\ SetGM(r.gm)
          /\ marked' = IF r.ret THEN marked \cup {user_id} ELSE marked
    /\ UNCHANGED <<poisoned, disc, sleepers, last, uridVars, instance, conv, req, busy, sse>>

\* ------------------------------------------------------ user_disconnected
\* the invocation returns (or unwinds): its locals are gone, its result stays
Finished(t, status) ==
    disc' = [disc EXCEPT ![t] = [pc |-> "done", user_id |-> 0,
                                 game_code |-> 0, status |-> status]]

\* steps 1 to 4, in one write-locked block
UserDisconnectedImmediate(t, user_id) ==
    /\ disc[t].pc # "sleep"
    /\ lock_free
    /\ IF poisoned
       THEN /\ Finished(t, "Panicked")
            /\ UNCHANGED <<gmVars, poisoned, marked>>
       ELSE LET user_exists == \E i \in DOMAIN users : users[i].user_id = user_id
                marked_users == [i \in DOMAIN users |->
                                    IF users[i].user_id = user_id
                                    THEN [users[i] EXCEPT !.connected = FALSE]
                                    ELSE users[i]]
                gm == [GM EXCEPT !.users = marked_users]
                game == game_by_user_id(gm, user_id)
            IN IF ~user_exists
               THEN /\ Finished(t, "UserNotFound")
                    /\ UNCHANGED <<gmVars, poisoned, marked>>
               ELSE /\ SetGM(gm)
                    /\ marked' = marked \ {user_id}
                    /\ UNCHANGED poisoned
                    /\ IF game = None
                       THEN Finished(t, "GameNotFound")
                       ELSE IF users_connected(gm, game[1].game_code)[1]
                       THEN Finished(t, "GameAlive")
                       ELSE disc' = [disc EXCEPT ![t] =
                                [pc |-> "sleep", user_id |-> user_id,
                                 game_code |-> game[1].game_code,
                                 status |-> "None"]]
    /\ sleepers' = IF disc'[t].pc = "sleep" THEN Append(sleepers, t) ELSE sleepers
    /\ UNCHANGED <<last, uridVars, instance, conv, req, busy, sse>>

\* What steps 6 and 7 do to a registry that is not poisoned
deferred_phase(gm, game_code) ==
    LET connected == users_connected(gm, game_code)
    IN IF connected = None
       THEN [gm |-> gm, status |-> "Panicked", panic |-> TRUE]
       ELSE IF connected[1]
       THEN [gm |-> gm, status |-> "GameAlive", panic |-> FALSE]
       ELSE LET d == delete_game(gm, game_code)
            IN [gm |-> d.gm,
                status |-> IF d.panic THEN "Panicked" ELSE "GameDeleted",
                panic |-> d.panic]

\* steps 6 and 7, in one write-locked block, once the sleep of step 5 is over
UserDisconnectedDeferred(t) ==
    /\ disc[t].pc = "sleep"
    /\ lock_free
    /\ IF poisoned
       THEN /\ Finished(t, "Panicked")
            /\ UNCHANGED <<gmVars, poisoned>>
       ELSE LET r == deferred_phase(GM, disc[t].game_code)
            IN /\ SetGM(r.gm)
               /\ poisoned' = r.panic
               /\ Finished(t, r.status)
    /\ sleepers' = SelectSeq(sleepers, LAMBDA o : o # t)
    /\ UNCHANGED <<marked, last, uridVars, instance, conv, req, busy, sse>>

Next ==
    \/ \E n \in Usernames, ip \in RequestIps : CreateGame(n, ip)
    \/ \E c \in GameCodes, n \in Usernames, ip \in RequestIps : JoinGame(c, n, ip)
    \/ \E id \in UserIds : Events(id)
    \/ \E t \in Threads, id \in UserIds : UserDisconnectedImmediate(t, id)
    \/ \E t \in Threads : UserDisconnectedDeferred(t)

Spec == Init /\ [][Next]_vars

\* ------------------------------------- direct calls of GameManager's methods
\* Any sequence of calls on one GameManager, as a test of the type makes them.
\* A call that panics ends the sequence: the registry stays as the panic left it.
\* event: what the call sent on the broadcast channel (event.send), if anything
CalledSending(op, arg, ret, event) ==
    last' = [op |-> op, arg |-> arg, ret |-> ret, event |-> event]

Called(op, arg, ret) == CalledSending(op, arg, ret, None)

CreateGameCall(username, ip_address) ==
    /\ ~poisoned
    /\ \E code \in generate_game_code(GM) : \E user_id \in generate_user_id(GM) :
          LET r == create_game(GM, username, ip_address, code, user_id)
          IN /\ SetGM(r.gm)
             /\ Called("create_game", Some(username), r.ret)
    /\ UNCHANGED <<poisoned, disc, sleepers, marked, uridVars, instance, conv, req, busy, sse>>

AddPlayerToGameCall(game_code, username, ip_address) ==
    /\ ~poisoned
    /\ \E user_id \in generate_user_id(GM) :
          LET r == add_player_to_game(GM, game_code, username, ip_address, user_id)
          IN /\ SetGM(r.gm)
             /\ CalledSending("add_player_to_game", <<game_code, username>>,
                              r.ret, r.event)
    /\ UNCHANGED <<poisoned, disc, sleepers, marked, uridVars, instance, conv, req, busy, sse>>

DeleteGameCall(game_code) ==
    /\ ~poisoned
    /\ LET d == delete_game(GM, game_code)
       IN /\ SetGM(d.gm)
          /\ poisoned' = d.panic
          /\ Called("delete_game", Some(game_code),
                    IF d.panic THEN None ELSE Some(d.ret))
    /\ UNCHANGED <<disc, sleepers, marked, uridVars, instance, conv, req, busy, sse>>

ApiNext ==
    \/ \E n \in Usernames, ip \in RequestIps : CreateGameCall(n, ip)
    \/ \E c \in GameCodes, n \in Usernames, ip \in RequestIps :
          AddPlayerToGameCall(c, n, ip)
    \/ \E c \in GameCodes : DeleteGameCall(c)

ApiSpec == Init /\ [][ApiNext]_vars

\* ------------------------- create, join and connect on one GameManager
UserConnectedCall(user_id) ==
    /\ ~poisoned
    /\ LET r == user_connected(GM, user_id)
       IN /\ SetGM(r.gm)
          /\ Called("user_connected", Some(user_id), Some(r.ret))
    /\ UNCHANGED <<poisoned, disc, sleepers, marked, uridVars, instance, conv, req, busy, sse>>

JoinNext ==
    \/ \E n \in Usernames, ip \in RequestIps : CreateGameCall(n, ip)
    \/ \E c \in GameCodes, n \in Usernames, ip \in RequestIps :
          AddPlayerToGameCall(c, n, ip)
    \/ \E id \in UserIds : UserConnectedCall(id)

JoinSpec == Init /\ [][JoinNext]_vars

\* --------------------------------------------- direct calls of Urids' methods
OptIps == {None} \cup {Some(ip) : ip \in IpAddrs}

AddUridCall(urid, ip_addr) ==
    /\ LET r == add_urid(UR, urid, ip_addr)
       IN /\ SetUR(r.ur)
          /\ Called("add_urid", <<urid, ip_addr>>, Some(r.ret))
    /\ UNCHANGED <<gmVars, instance, conv, req, busy, sse, poisoned, disc, sleepers, marked, regs>>

RegisterCall(ip_addr) ==
    /\ \E urid \in generate_urid(UR) :
          LET r == register(UR, ip_addr, urid)
          IN /\ regs[r.ret] < MaxRegs
             /\ SetUR(r.ur)
             /\ regs' = [regs EXCEPT ![r.ret] = @ + 1]
             /\ Called("register", ip_addr, Some(r.ret))
    /\ UNCHANGED <<gmVars, instance, conv, req, busy, sse, poisoned, disc, sleepers, marked>>

UnregisterCall(urid) ==
    /\ \E ip_to_remove \in unregister_ip_to_remove(UR, urid) :
          SetUR(unregister(UR, urid, ip_to_remove))
    /\ regs' = [regs EXCEPT ![urid] = 0]
    /\ Called("unregister", Some(urid), None)
    /\ UNCHANGED <<gmVars, instance, conv, req, busy, sse, poisoned, disc, sleepers, marked>>

UnregisterAllCall(urids) ==
    /\ SetUR(unregister_all(UR, urids))
    /\ regs' = [u \in UridValues |-> IF u \in urids THEN 0 ELSE regs[u]]
    /\ Called("unregister_all", Some(urids), None)
    /\ UNCHANGED <<gmVars, instance, conv, req, busy, sse, poisoned, disc, sleepers, marked>>

UridsNext ==
    \/ \E u \in UridValues, ip \in OptIps : AddUridCall(u, ip)
    \/ \E ip \in OptIps : RegisterCall(ip)
    \/ \E u \in UridValues : UnregisterCall(u)
    \/ \E S \in SUBSET UridValues : UnregisterAllCall(S)

UridsSpec == Init /\ [][UridsNext]_vars

\* ------------------------------------------- GameInstance and its methods
\* A User as it is handed to add_user: User::new leaves it not connected
InstanceUser(name, uuid, urid) ==
    [name |-> name, id |-> uuid, urid |-> urid, connected |-> FALSE]

\* Player::new(user): the user and game_master = false
InstancePlayer(user) ==
    [name |-> user.name, id |-> user.id, urid |-> user.urid,
     connected |-> user.connected, game_master |-> FALSE]

\* add_user that puts the new player in front of the others
add_user_front(game, user) ==
    IF game.game_state = "Lobby"
    THEN [game |-> [game EXCEPT !.players = <<InstancePlayer(user)>> \o @],
          ret |-> TRUE]
    ELSE [game |-> game, ret |-> FALSE]

\* GameInstance::add_user
add_user(game, user) ==
    IF game.game_state = "Lobby"
    THEN [game |-> [game EXCEPT !.players = Append(@, InstancePlayer(user))],
          ret |-> TRUE]
    ELSE [game |-> game, ret |-> FALSE]

\* GameInstance::does_player_exist
does_player_exist(game, name) ==
    \E i \in DOMAIN game.players : game.players[i].name = name

\* GameInstance::is_player_connected: the flag of the first player with the name
is_player_connected(game, name) ==
    LET found == {i \in DOMAIN game.players : game.players[i].name = name}
    IN IF found = {} THEN FALSE ELSE game.players[MinOf(found)].connected

\* GameInstance::validate_urid, ur a UserRecovery [urid, name]
validate_urid(game, ur) ==
    \E i \in DOMAIN game.players : game.players[i].urid = ur.urid

\* abandoned whose loop assigns the flag of each player to player_connected,
\* so that the last player decides
RECURSIVE last_player_connected(_, _)
last_player_connected(players, player_connected) ==
    IF players = <<>> THEN player_connected
    ELSE last_player_connected(Tail(players), Head(players).connected)

abandoned_last_only(game) == ~last_player_connected(game.players, FALSE)

\* The loop of GameInstance::abandoned: player_connected after the players
RECURSIVE any_player_connected(_, _)
any_player_connected(players, player_connected) ==
    IF players = <<>> THEN player_connected
    ELSE any_player_connected(Tail(players),
                              IF Head(players).connected THEN TRUE
                              ELSE player_connected)

\* GameInstance::abandoned
abandoned(game) == ~any_player_connected(game.players, FALSE)

\* GameInstance::user_connected
instance_user_connected(game, uuid) ==
    LET i == player_by_uuid_mut(game, uuid)
    IN IF i = 0 THEN [game |-> game, ret |-> FALSE]
       ELSE [game |-> [game EXCEPT !.players[i].connected = TRUE], ret |-> TRUE]

\* GameInstance::user_registration: the registration of the first player with
\* the name
user_registration(game, name) ==
    LET found == {i \in DOMAIN game.players : game.players[i].name = name}
    IN IF found = {} THEN None
       ELSE Some([name |-> name, id |-> game.players[MinOf(found)].id,
                  urid |-> game.players[MinOf(found)].urid])

\* direct calls of GameInstance's methods; the users come from the registry,
\* which draws a uuid and a urid that no other user has
AddUserCall(name) ==
    /\ \E uuid \in UserIds, urid \in UridValues :
          /\ \A i \in DOMAIN instance.players :
                instance.players[i].id # uuid /\ instance.players[i].urid # urid
          /\ LET r == add_user(instance, InstanceUser(name, uuid, urid))
             IN /\ instance' = r.game
                /\ Called("add_user", <<name, uuid>>, Some(r.ret))
    /\ UNCHANGED <<gmVars, poisoned, disc, sleepers, marked, uridVars, conv, req, busy, sse>>

SetGameMasterCall(uuid) ==
    /\ instance' = set_game_master(instance, uuid)
    /\ Called("set_game_master", Some(uuid),
              Some(player_by_uuid_mut(instance, uuid) # 0))
    /\ UNCHANGED <<gmVars, poisoned, disc, sleepers, marked, uridVars, conv, req, busy, sse>>

InstanceUserConnectedCall(uuid) ==
    /\ LET r == instance_user_connected(instance, uuid)
       IN /\ instance' = r.game
          /\ Called("user_connected", Some(uuid), Some(r.ret))
    /\ UNCHANGED <<gmVars, poisoned, disc, sleepers, marked, uridVars, conv, req, busy, sse>>

\* What a join answers when the name is already in the session (join_session,
\* steps 3 and 4): a disconnected participant gets their registration back; a
\* connected one only with a recovery that the game instance validates
\* (UserRecovery: "validated by the game instance"), NameTaken otherwise.
\* ur is None or Some(UserRecovery).
join_existing_name(game, username, ur) ==
    IF ~is_player_connected(game, username)
    THEN [ok |-> TRUE, reg |-> user_registration(game, username)]
    ELSE IF ur # None /\ validate_urid(game, ur[1])
    THEN [ok |-> TRUE, reg |-> user_registration(game, username)]
    ELSE [ok |-> FALSE, reg |-> None]

\* POST /api/join_game with the urid cookie (join_game_recovery), for a name
\* that is in the session: ur.name is set to the username of the request
JoinGameRecoveryCall(username, urid) ==
    /\ does_player_exist(instance, username)
    /\ LET ur == [urid |-> urid, name |-> username]
       IN Called("join_game_recovery", <<username, urid>>,
                 join_existing_name(instance, username, Some(ur)))
    /\ UNCHANGED <<gmVars, poisoned, disc, sleepers, marked, uridVars, instance, conv, req, busy, sse>>

InstanceNext ==
    \/ \E n \in Usernames : AddUserCall(n)
    \/ \E id \in UserIds : SetGameMasterCall(id)
    \/ \E id \in UserIds : InstanceUserConnectedCall(id)
    \/ \E n \in Usernames, u \in UridValues : JoinGameRecoveryCall(n, u)

InstanceSpec == Init /\ [][InstanceNext]_vars

\* ------------------------------------------------ the disconnect protocol
Participants(gm, game_code) ==
    LET g == game_by_code(gm, game_code)
    IN IF g = None THEN {} ELSE {g[1].players[i].id : i \in DOMAIN g[1].players}

ParticipantNames(gm, game_code) ==
    LET g == game_by_code(gm, game_code)
    IN IF g = None THEN {} ELSE {g[1].players[i].name : i \in DOMAIN g[1].players}

Sleeping(game_code) ==
    \E t \in Threads : disc[t].pc = "sleep" /\ disc[t].game_code = game_code

\* The step in which invocation t leaves its sleep and runs steps 6 and 7
Rechecks(t) == disc[t].pc = "sleep" /\ disc'[t].pc = "done"

\* C1: the deferred re-check never deletes a session one of whose participants
\* was marked connected (and not marked disconnected since): it returns
\* GameAlive, and the session, its code and its participants are as before.
C1_ReconnectKeepsSession ==
    [][\A t \in Threads :
         (/\ Rechecks(t)
          /\ ~poisoned
          /\ Participants(GM, disc[t].game_code) \cap marked # {})
         => (/\ disc'[t].status = "GameAlive"
             /\ does_game_exist(GM', disc[t].game_code)
             /\ game_by_code(GM', disc[t].game_code)
                    = game_by_code(GM, disc[t].game_code))]_vars

\* C2: for a session of Alice and Bob whose participants are both marked
\* disconnected (a participant never marked connected has the same
\* User.connected = false), once the wait of the last disconnect is over
\* does_game_exist(code) is false.
C2_DeletedAfterTimeout ==
    [][\A t \in Threads :
         (/\ Rechecks(t)
          /\ game_by_code(GM, disc[t].game_code) # None
          /\ ParticipantNames(GM, disc[t].game_code) = {"Alice", "Bob"}
          /\ Participants(GM, disc[t].game_code) \cap marked = {}
          /\ \A o \in Threads \ {t} : disc[o].pc # "sleep")
         => ~does_game_exist(GM', disc[t].game_code)]_vars

\* C3: a phase of a disconnect that finds its session already deleted is a
\* no-op: it does not panic and changes nothing in the registry.
C3_DeletedSessionNoOp ==
    [][/\ \A t \in Threads :
            (/\ Rechecks(t)
             /\ ~poisoned
             /\ game_by_code(GM, disc[t].game_code) = None)
            => (/\ disc'[t].status # "Panicked"
                /\ ~poisoned'
                /\ UNCHANGED gmVars)
       /\ \A t \in Threads, id \in UserIds :
            (/\ UserDisconnectedImmediate(t, id)
             /\ ~poisoned
             /\ id \in Range(used_user_ids)
             /\ game_by_user_id(GM, id) = None)
            => (/\ disc'[t].status # "Panicked"
                /\ UNCHANGED gmVars)]_vars

\* --------------------------------------------------------------- delete_game
\* C4: delete_game(code) on a live session returns true without a panic, and
\* afterwards does_game_exist(code) is false, game_by_code(code) is None and the
\* code is free for the generator.
C4_DeleteLiveSession ==
    [][\A c \in GameCodes :
         (DeleteGameCall(c) /\ game_by_code(GM, c) # None)
         => (/\ last'.ret = Some(TRUE)
             /\ ~poisoned'
             /\ ~does_game_exist(GM', c)
             /\ game_by_code(GM', c) = None
             /\ c \in generate_game_code(GM'))]_vars

\* C5: after delete_game(code) returned true, no identity of a participant of
\* that session is in used_user_ids and no user record has such an identity.
C5_IdentitiesReleased ==
    [][\A c \in GameCodes :
         (DeleteGameCall(c) /\ last'.ret = Some(TRUE))
         => \A id \in Participants(GM, c) :
                /\ ~Contains(used_user_ids', id)
                /\ \A i \in DOMAIN users' : users'[i].user_id # id]_vars

\* C7: delete_game(code) for a code of no live session returns false and
\* leaves games, users, used_game_codes and used_user_ids as they were.
C7_DeleteUnknownNoOp ==
    [][\A c \in GameCodes :
         (DeleteGameCall(c) /\ game_by_code(GM, c) = None)
         => (last'.ret = Some(FALSE) /\ ~poisoned' /\ UNCHANGED gmVars)]_vars

\* delete_game was called with a code of no live session while another
\* session was live
C7_Witness ==
    /\ last.op = "delete_game"
    /\ last.ret = Some(FALSE)
    /\ games # <<>>
    /\ game_by_code(GM, last.arg[1]) = None

\* C8: no two live sessions have the same game code.
C8_CodesUnique ==
    \A i, j \in DOMAIN games :
        i # j => games[i].game_code # games[j].game_code

\* create_game has just added a second live session
C8_Witness ==
    /\ last.op = "create_game"
    /\ Len(games) = 2
    /\ games[1].game_code # games[2].game_code

\* C9: the identities of all participants of all sessions, and of all user
\* records, are pairwise distinct.
C9_IdentitiesUnique ==
    /\ \A g, h \in DOMAIN games :
         \A p \in DOMAIN games[g].players, q \in DOMAIN games[h].players :
            <<g, p>> # <<h, q>> => games[g].players[p].id # games[h].players[q].id
    /\ \A i, j \in DOMAIN users : i # j => users[i].user_id # users[j].user_id

\* a participant joined a session that already had one, after another session
\* had been deleted
C9_Witness ==
    /\ last.op = "add_player_to_game"
    /\ last.ret # None
    /\ Len(used_user_ids) = 3
    /\ Len(users) = 2
    /\ \E g \in DOMAIN games : Len(games[g].players) = 2

\* ----------------------------------------------------------------- Urids
\* C6: after unregister(u), and after unregister_all(S) for every u in S, u is
\* not in used_urids and no ip address is mapped to u.
C6_UnregisterComplete ==
    /\ last.op = "unregister" =>
          /\ last.arg[1] \notin used_urids
          /\ \A k \in DOMAIN urid_by_ip : urid_by_ip[k] # last.arg[1]
    /\ last.op = "unregister_all" =>
          \A u \in last.arg[1] :
              /\ u \notin used_urids
              /\ \A k \in DOMAIN urid_by_ip : urid_by_ip[k] # u

\* C10: no two registrations that are both still registered hold the same
\* recovery token.
C10_TokensUnique == \A u \in UridValues : regs[u] <= 1

\* C11: an ip address that is mapped to a token keeps that token through every
\* add_urid and register call; unregister(u) and unregister_all(S) change only
\* the mappings to u (to a token of S); add_urid returns true iff the token
\* was not in used_urids before the call.
C11_FirstClaimWins ==
    [][LET kept(k) == k \in DOMAIN urid_by_ip' /\ urid_by_ip'[k] = urid_by_ip[k]
       IN /\ last'.op = "add_urid" =>
                /\ \A k \in DOMAIN urid_by_ip : kept(k)
                /\ last'.ret = Some(last'.arg[1] \notin used_urids)
          /\ last'.op = "register" =>
                \A k \in DOMAIN urid_by_ip : kept(k)
          /\ last'.op = "unregister" =>
                \A k \in DOMAIN urid_by_ip :
                    urid_by_ip[k] # last'.arg[1] => kept(k)
          /\ last'.op = "unregister_all" =>
                \A k \in DOMAIN urid_by_ip :
                    urid_by_ip[k] \notin last'.arg[1] => kept(k)
      ]_vars

\* add_urid was called with a new token and an ip address that another token
\* had claimed first
C11_Witness ==
    /\ last.op = "add_urid"
    /\ last.ret = Some(TRUE)
    /\ last.arg[2] # None
    /\ last.arg[2][1] \in DOMAIN urid_by_ip
    /\ urid_by_ip[last.arg[2][1]] # last.arg[1]

\* ------------------------------------------------------------ GameInstance
\* C12: a session never has more than one participant with the game master
\* flag set.
C12_AtMostOneGameMaster ==
    Cardinality({i \in DOMAIN instance.players :
                    instance.players[i].game_master}) <= 1

\* set_game_master has just made a participant other than the first one game
\* master, in a session of several participants
C12_Witness ==
    /\ last.op = "set_game_master"
    /\ last.ret = Some(TRUE)
    /\ Len(instance.players) >= 2
    /\ \E i \in DOMAIN instance.players :
          /\ instance.players[i].id = last.arg[1]
          /\ instance.players[i].game_master
          /\ i > 1

\* C13: set_game_master(id) returns false and changes nothing when no
\* participant has the id; otherwise it returns true, afterwards exactly the
\* participant with the id is game master, and names, ids, connectivity and
\* order of the participants are as before.
C13_SetGameMaster ==
    [][last'.op = "set_game_master" =>
        LET id == last'.arg[1]
            has == \E i \in DOMAIN instance.players : instance.players[i].id = id
        IN IF ~has
           THEN last'.ret = Some(FALSE) /\ instance' = instance
           ELSE /\ last'.ret = Some(TRUE)
                /\ Len(instance'.players) = Len(instance.players)
                /\ \A i \in DOMAIN instance.players :
                      /\ instance'.players[i].game_master
                            = (instance.players[i].id = id)
                      /\ instance'.players[i].name = instance.players[i].name
                      /\ instance'.players[i].id = instance.players[i].id
                      /\ instance'.players[i].urid = instance.players[i].urid
                      /\ instance'.players[i].connected
                            = instance.players[i].connected
      ]_vars

\* set_game_master returned true in a session with a second participant, who
\* is connected and not game master
C13_Witness ==
    /\ last.op = "set_game_master"
    /\ last.ret = Some(TRUE)
    /\ \E i, j \in DOMAIN instance.players :
          /\ i # j
          /\ instance.players[i].id = last.arg[1]
          /\ instance.players[i].game_master
          /\ instance.players[j].connected
          /\ ~instance.players[j].game_master

\* C20: add_user returns true and appends the participant at the end of the
\* list iff the game state is Lobby; otherwise it returns false and the list is
\* unchanged.
C20_AddUserInLobby ==
    [][last'.op = "add_user" =>
        IF instance.game_state = "Lobby"
        THEN /\ last'.ret = Some(TRUE)
             /\ Len(instance'.players) = Len(instance.players) + 1
             /\ SubSeq(instance'.players, 1, Len(instance.players))
                    = instance.players
             /\ instance'.players[Len(instance'.players)].name = last'.arg[1]
             /\ instance'.players[Len(instance'.players)].id = last'.arg[2]
        ELSE /\ last'.ret = Some(FALSE)
             /\ instance'.players = instance.players
      ]_vars

\* add_user has appended a participant behind another one
C20_Witness ==
    /\ last.op = "add_user"
    /\ last.ret = Some(TRUE)
    /\ Len(instance.players) = 2
    /\ instance.players[2].id = last.arg[2]

\* ------------------------------------------------------- create and join
\* C14: create_game("Alice") returns a registration whose user id and game
\* code were unused before the call; afterwards does_game_exist(code) is true
\* and the session of that code has exactly one participant, Alice with the
\* returned id, who is game master.
C14_CreateAsAlice ==
    [][(last'.op = "create_game" /\ last'.arg = Some("Alice")) =>
        /\ last'.ret # None
        /\ LET reg == last'.ret[1]
           IN /\ ~Contains(used_user_ids, reg.user_id)
              /\ ~Contains(used_game_codes, reg.game_code)
              /\ does_game_exist(GM', reg.game_code)
              /\ game_by_code(GM', reg.game_code) # None
              /\ game_by_code(GM', reg.game_code)[1].players =
                    <<[name |-> "Alice", id |-> reg.user_id,
                       game_master |-> TRUE]>>
      ]_vars

\* create_game("Alice") returned while another session was live
C14_Witness ==
    /\ last.op = "create_game"
    /\ last.arg = Some("Alice")
    /\ last.ret # None
    /\ Len(games) = 2
    /\ does_game_exist(GM, last.ret[1].game_code)

\* C15: add_player_to_game with a code of no live session returns None and
\* leaves games, users, used_game_codes and used_user_ids as they were (the id
\* it generated is not recorded), and it sends no notification.
C15_JoinUnknownCode ==
    [][(last'.op = "add_player_to_game"
            /\ game_by_code(GM, last'.arg[1]) = None) =>
        /\ last'.ret = None
        /\ last'.event = None
        /\ UNCHANGED gmVars
      ]_vars

\* add_player_to_game was called with a code of no live session while another
\* session was live
C15_Witness ==
    /\ last.op = "add_player_to_game"
    /\ last.ret = None
    /\ games # <<>>
    /\ game_by_code(GM, last.arg[1]) = None

\* The players of the session with the code that have the name
PlayersNamed(gm, game_code, name) ==
    LET g == game_by_code(gm, game_code)
    IN IF g = None THEN {}
       ELSE {i \in DOMAIN g[1].players : g[1].players[i].name = name}

\* Some player of the session has the name, and the user record of the first
\* such player is connected (or, with flag FALSE, is not connected)
NamedPlayerConnected(gm, game_code, name, flag) ==
    /\ PlayersNamed(gm, game_code, name) # {}
    /\ LET g == game_by_code(gm, game_code)[1]
           p == g.players[MinOf(PlayersNamed(gm, game_code, name))]
       IN \E u \in DOMAIN gm.users :
            gm.users[u].user_id = p.id /\ gm.users[u].connected = flag

\* C16: a join with the name of a participant who is in the session and
\* connected, without a recovery token, is rejected and adds no participant.
C16_NameTaken ==
    [][(/\ last'.op = "add_player_to_game"
        /\ NamedPlayerConnected(GM, last'.arg[1], last'.arg[2], TRUE)) =>
        /\ last'.ret = None
        /\ game_by_code(GM', last'.arg[1]) = game_by_code(GM, last'.arg[1])
      ]_vars

\* C18: a join with the name of a participant who is in the session and marked
\* disconnected returns that participant's identity, draws no new id and
\* leaves the number of participants unchanged; so does a second such join.
C18_RejoinIdempotent ==
    [][(/\ last'.op = "add_player_to_game"
        /\ NamedPlayerConnected(GM, last'.arg[1], last'.arg[2], FALSE)) =>
        /\ last'.ret # None
        /\ LET g == game_by_code(GM, last'.arg[1])[1]
               p == g.players[MinOf(PlayersNamed(GM, last'.arg[1], last'.arg[2]))]
           IN last'.ret[1].user_id = p.id
        /\ used_user_ids' = used_user_ids
        /\ Len(game_by_code(GM', last'.arg[1])[1].players)
              = Len(game_by_code(GM, last'.arg[1])[1].players)
      ]_vars

\* C19: the display names of the participants of a session (every session is
\* in Lobby) are pairwise distinct.
C19_NamesUnique ==
    \A g \in DOMAIN games :
        \A p, q \in DOMAIN games[g].players :
            p # q => games[g].players[p].name # games[g].players[q].name

\* C17: a join with the name of a connected participant P and a recovery token
\* that is registered in the session but belongs to another participant Q is
\* rejected and does not return P's credentials.
C17_TokenMustMatchName ==
    (/\ last.op = "join_game_recovery"
     /\ is_player_connected(instance, last.arg[1])
     /\ \E q \in DOMAIN instance.players :
           /\ instance.players[q].urid = last.arg[2]
           /\ instance.players[q].name # last.arg[1])
    => (~last.ret.ok /\ last.ret.reg = None)

\* --------------------------------------------------------- players_in_game
\* C21: players_in_game(code) lists the names in the order the participants
\* were added: create_game(n) makes it [n], a successful join of n appends n at
\* the end, and as long as the session is found no call reorders or shortens
\* the list.
C21_JoinOrder ==
    [][/\ \A c \in GameCodes :
            (players_in_game(GM, c) # None /\ players_in_game(GM', c) # None) =>
                LET old == players_in_game(GM, c)[1]
                    new == players_in_game(GM', c)[1]
                IN /\ Len(new) >= Len(old)
                   /\ SubSeq(new, 1, Len(old)) = old
       /\ (last'.op = "create_game" /\ last'.ret # None) =>
            players_in_game(GM', last'.ret[1].game_code) = Some(<<last'.arg[1]>>)
       /\ (last'.op = "add_player_to_game" /\ last'.ret # None) =>
            players_in_game(GM', last'.arg[1])
                = Some(Append(players_in_game(GM, last'.arg[1])[1], last'.arg[2]))
      ]_vars

\* Bob has just joined the session Alice created
C21_Witness ==
    /\ last.op = "add_player_to_game"
    /\ last.ret # None
    /\ players_in_game(GM, last.arg[1]) = Some(<<"Alice", "Bob">>)

\* ------------------------------------------------------------- abandonment
\* The session with the code as a GameInstance whose players carry the
\* connected flag of their user record
SessionView(gm, game_code) ==
    LET g == game_by_code(gm, game_code)[1]
    IN [g EXCEPT !.players =
            [i \in DOMAIN g.players |->
                [name |-> g.players[i].name, id |-> g.players[i].id,
                 game_master |-> g.players[i].game_master,
                 connected |-> \E u \in DOMAIN gm.users :
                                  /\ gm.users[u].user_id = g.players[i].id
                                  /\ gm.users[u].connected]]]

\* C22: a session is abandoned exactly when none of its participants is
\* connected, a session without participants is abandoned, and for a live
\* code users_connected is the negation of abandoned.
C22_AbandonedIffNoneConnected ==
    /\ abandoned(NewGameInstance(1))
    /\ \A c \in GameCodes :
          game_by_code(GM, c) # None =>
            LET v == SessionView(GM, c)
                none == \A i \in DOMAIN v.players : ~v.players[i].connected
            IN /\ abandoned(v) = none
               /\ users_connected(GM, c) = Some(~abandoned(v))

\* a session whose first participant is connected and whose last is not
C22_Witness ==
    \E c \in GameCodes :
        /\ game_by_code(GM, c) # None
        /\ LET v == SessionView(GM, c)
           IN /\ Len(v.players) >= 2
              /\ v.players[1].connected
              /\ ~v.players[Len(v.players)].connected

\* ------------------------------------------------- GameCode conversions
\* the longest string handed to from_string
MaxStringLen == 10
\* characters of the strings handed over: one of the charset, the separator
\* and one that is not of the charset
StringChars == {"A", "-", "a"}
\* characters of the codes handed over
CodeChars == {"7", "Z"}
Strings == UNION {[1..n -> StringChars] : n \in 0..MaxStringLen}
Codes == [1..CodeLen -> CodeChars]

\* a string of the form XXXX-XXXX over the charset
WellFormed(s) ==
    /\ Len(s) = CodeLen + 1
    /\ \A i \in 1..Len(s) :
          IF i = SeparatorIndex + 1 THEN s[i] = "-" ELSE s[i] \in GAME_CODE_CHARSET
WellFormedStrings == {s \in [1..(CodeLen + 1) -> CodeChars \cup {"-"}] : WellFormed(s)}

\* a conversion is asked for: of a string, or of a code
CodeInit ==
    /\ GameManagerInit
    /\ req = NoRequest
    /\ busy = "idle"
    /\ sse = NoStream
    /\ \/ \E string \in Strings \cup WellFormedStrings :
             conv = [pc |-> "string", string |-> string, code |-> None,
                     back |-> None]
       \/ \E game_code \in Codes :
             conv = [pc |-> "code", string |-> <<>>, code |-> Some(game_code),
                     back |-> None]

\* GameCode::from_string(string)
FromStringCall ==
    /\ conv.pc = "string"
    /\ conv' = [conv EXCEPT !.pc = "from_string",
                            !.code = from_string(conv.string)]
    /\ UNCHANGED <<gmVars, poisoned, disc, sleepers, marked, last, uridVars, instance, req, busy, sse>>

\* ... .unwrap().to_string() on what from_string returned
ToStringBack ==
    /\ conv.pc = "from_string"
    /\ conv.code # None
    /\ conv' = [conv EXCEPT !.pc = "from_string_to_string",
                            !.back = Some(to_string(conv.code[1]))]
    /\ UNCHANGED <<gmVars, poisoned, disc, sleepers, marked, last, uridVars, instance, req, busy, sse>>

\* GameCode::to_string of a code
ToStringCall ==
    /\ conv.pc = "code"
    /\ conv' = [conv EXCEPT !.pc = "to_string",
                            !.string = to_string(conv.code[1])]
    /\ UNCHANGED <<gmVars, poisoned, disc, sleepers, marked, last, uridVars, instance, req, busy, sse>>

\* GameCode::from_string on what to_string returned
FromStringBack ==
    /\ conv.pc = "to_string"
    /\ conv' = [conv EXCEPT !.pc = "to_string_from_string",
                            !.back = from_string(conv.string)]
    /\ UNCHANGED <<gmVars, poisoned, disc, sleepers, marked, last, uridVars, instance, req, busy, sse>>

CodeNext ==
    \/ FromStringCall
    \/ ToStringBack
    \/ ToStringCall
    \/ FromStringBack

CodeSpec == CodeInit /\ [][CodeNext]_vars

\* C23: a code of 8 charset characters is read back from its text, and a text
\* of the form XXXX-XXXX over the charset is parsed and written back unchanged.
C23_RoundTrip ==
    /\ conv.pc = "to_string_from_string" => conv.back = conv.code
    /\ (conv.pc = "from_string" /\ WellFormed(conv.string)) => conv.code # None
    /\ (conv.pc = "from_string_to_string" /\ WellFormed(conv.string))
          => conv.back = Some(conv.string)

\* a well-formed text of differing characters was parsed and written back
C23_Witness ==
    /\ conv.pc = "from_string_to_string"
    /\ WellFormed(conv.string)
    /\ conv.string[1] # conv.string[SeparatorIndex]
    /\ conv.string[1] # conv.string[Len(conv.string)]

\* C24: from_string returns None for every string that is not of the form
\* XXXX-XXXX over the charset, and a code it returns has no character that
\* the string does not have.
C24_StrictAndTotal ==
    conv.pc = "from_string" =>
        /\ ~WellFormed(conv.string) => conv.code = None
        /\ conv.code # None =>
              \A i \in DOMAIN conv.code[1] : conv.code[1][i] \in Range(conv.string)

\* ------------------------------------------- GET /api/players_in_game
\* impl FromRequest for GameCode: the request guard, one critical section.
\* The game_code header is one that parses; a request without the header or
\* with one that does not parse is refused like one for an unknown code.
GameCodeGuard(game_code) ==
    /\ req.pc # "handler"
    /\ lock_free
    /\ ~poisoned
    /\ req' = IF does_game_exist(GM, game_code)
              THEN [pc |-> "handler", game_code |-> game_code]
              ELSE NoRequest
    /\ UNCHANGED <<gmVars, poisoned, disc, sleepers, marked, last, uridVars, instance, conv, busy, sse>>

\* the handler, a second critical section: players_in_game(game_code).unwrap()
\* under a read guard, whose holder panicking does not poison the lock
PlayersInGame ==
    /\ req.pc = "handler"
    /\ lock_free
    /\ ~poisoned
    /\ req' = IF players_in_game(GM, req.game_code) = None
              THEN [pc |-> "panicked", game_code |-> req.game_code]
              ELSE NoRequest
    /\ UNCHANGED <<gmVars, poisoned, disc, sleepers, marked, last, uridVars, instance, conv, busy, sse>>

GuardNext ==
    \/ \E n \in Usernames, ip \in RequestIps : CreateGame(n, ip)
    \/ \E id \in UserIds : Events(id)
    \/ \E t \in Threads, id \in UserIds : UserDisconnectedImmediate(t, id)
    \/ \E t \in Threads : UserDisconnectedDeferred(t)
    \/ \E c \in GameCodes : GameCodeGuard(c)
    \/ PlayersInGame

GuardSpec == Init /\ [][GuardNext]_vars

\* C25: an invocation of user_disconnected that sleeps holds no guard of the
\* registry's lock: while it sleeps and the lock is not poisoned, a connect, a
\* join and a create of another caller can take the lock and complete.
C25_NoLockWhileWaiting ==
    (\E t \in Threads : disc[t].pc = "sleep") =>
        /\ lock_free
        /\ ~poisoned =>
              /\ \A id \in UserIds : ENABLED Events(id)
              /\ generate_user_id(GM) # {} =>
                    /\ \A c \in GameCodes, n \in Usernames :
                          ENABLED JoinGame(c, n, None)
                    /\ generate_game_code(GM) # {} =>
                          \A n \in Usernames : ENABLED CreateGame(n, None)

\* an invocation sleeps for a session that another caller has joined and
\* connected to since the sleep began
C25_Witness ==
    \E c \in GameCodes :
        /\ Sleeping(c)
        /\ Cardinality(Participants(GM, c)) >= 2
        /\ users_connected(GM, c) = Some(TRUE)

\* C29: the handler of /api/players_in_game finds the session of the code the
\* GameCode guard handed it: players_in_game(code) is not None there.
C29_GuardGuarantee == req.pc # "panicked"

\* ------------------------------------------------ disconnect and leave
\* a user with the identity id is registered
UserExists(gm, id) == \E i \in DOMAIN gm.users : gm.users[i].user_id = id

\* a participant of the session other than id is connected
OtherConnected(gm, game_code, id) ==
    \E p \in Participants(gm, game_code) \ {id} :
        \E u \in DOMAIN gm.users :
            gm.users[u].user_id = p /\ gm.users[u].connected

C27_RemovedOnlyWithSession ==
    [][\A c \in GameCodes :
        (game_by_code(GM, c) # None /\ game_by_code(GM', c) # None) =>
            LET old == game_by_code(GM, c)[1].players
                new == game_by_code(GM', c)[1].players
            IN \A i \in DOMAIN old :
                  /\ i \in DOMAIN new
                  /\ new[i].name = old[i].name
                  /\ new[i].id = old[i].id
                  /\ UserExists(GM, old[i].id) => UserExists(GM', old[i].id)]_vars

\* C30: user_connected for an identity no user has returns false and leaves
\* the registry as it is; a disconnect for such an identity returns
\* UserNotFound at once, without sleeping, and changes nothing.
C30_UnknownIdentity ==
    /\ [](\A id \in UserIds :
            ~UserExists(GM, id) =>
                user_connected(GM, id) = [gm |-> GM, ret |-> FALSE])
    /\ [][\A t \in Threads, id \in UserIds :
            (UserDisconnectedImmediate(t, id) /\ ~poisoned /\ ~UserExists(GM, id)) =>
                /\ disc'[t].pc = "done"
                /\ disc'[t].status = "UserNotFound"
                /\ UNCHANGED <<gmVars, marked, poisoned>>]_vars

\* a disconnect for an identity that no registered user has returned UserNotFound
C30_Witness ==
    \E t \in Threads :
        /\ disc[t].pc = "done"
        /\ disc[t].status = "UserNotFound"
        /\ users # <<>>
        /\ \E id \in UserIds : ~UserExists(GM, id)

\* disconnect_user(game_manager, user_auth, true), as leave_game calls it:
\* steps 1 to 4 of the disconnect, and a session found abandoned is deleted
\* in the same critical section, without the sleep and the second check.
disconnect_user_instant(gm, user_id) ==
    LET marked_users == [i \in DOMAIN gm.users |->
                            IF gm.users[i].user_id = user_id
                            THEN [gm.users[i] EXCEPT !.connected = FALSE]
                            ELSE gm.users[i]]
        gm2 == [gm EXCEPT !.users = marked_users]
        game == game_by_user_id(gm2, user_id)
    IN IF ~UserExists(gm, user_id)
       THEN [gm |-> gm, status |-> "UserNotFound", panic |-> FALSE]
       ELSE IF game = None
       THEN [gm |-> gm2, status |-> "GameNotFound", panic |-> FALSE]
       ELSE IF users_connected(gm2, game[1].game_code)[1]
       THEN [gm |-> gm2, status |-> "GameAlive", panic |-> FALSE]
       ELSE LET d == delete_game(gm2, game[1].game_code)
            IN [gm |-> d.gm,
                status |-> IF d.panic THEN "Panicked" ELSE "GameDeleted",
                panic |-> d.panic]

\* POST /api/leave_game
LeaveGame(user_id) ==
    /\ lock_free
    /\ ~poisoned
    /\ LET r == disconnect_user_instant(GM, user_id)
       IN /\ SetGM(r.gm)
          /\ poisoned' = r.panic
          /\ Called("leave_game", Some(user_id), Some(r.status))
    /\ marked' = marked \ {user_id}
    /\ UNCHANGED <<disc, sleepers, uridVars, instance, conv, req, busy, sse>>

LeaveNext ==
    \/ \E n \in Usernames, ip \in RequestIps : CreateGame(n, ip)
    \/ \E c \in GameCodes, n \in Usernames, ip \in RequestIps : JoinGame(c, n, ip)
    \/ \E id \in UserIds : Events(id)
    \/ \E id \in UserIds : LeaveGame(id)

LeaveSpec == Init /\ [][LeaveNext]_vars

\* a user with the identity id is registered and connected
UserIsConnected(gm, id) ==
    \E u \in DOMAIN gm.users : gm.users[u].user_id = id /\ gm.users[u].connected

\* C28: a leave_game of a connected participant returns GameAlive and keeps
\* the session when another participant of it is connected; otherwise it
\* deletes the session in the same request.
C28_LeaveDeletesAtOnce ==
    [][\A id \in UserIds, c \in GameCodes :
        (LeaveGame(id) /\ UserIsConnected(GM, id) /\ game_by_user_id(GM, id) # None
            /\ game_by_user_id(GM, id)[1].game_code = c) =>
            IF OtherConnected(GM, c, id)
            THEN /\ last'.ret = Some("GameAlive")
                 /\ games' = games
                 /\ does_game_exist(GM', c)
            ELSE /\ last'.ret = Some("GameDeleted")
                 /\ game_by_code(GM', c) = None
                 /\ ~does_game_exist(GM', c)]_vars

\* ---------------------------------------------------------- notifications
\* C31: a call of add_player_to_game sends one AddPlayer event, for every
\* player (player 0), with the code of the session and the name of the joiner,
\* when it adds a participant, and sends nothing when it adds none.
C31_AddPlayerEvent ==
    [][last'.op = "add_player_to_game" =>
        LET c == last'.arg[1]
            n == last'.arg[2]
            before == IF game_by_code(GM, c) = None THEN <<>>
                      ELSE game_by_code(GM, c)[1].players
            after == IF game_by_code(GM', c) = None THEN <<>>
                     ELSE game_by_code(GM', c)[1].players
        IN IF Len(after) = Len(before) + 1
           THEN last'.event = Some(EventData(0, c, <<"AddPlayer", n>>))
           ELSE /\ last'.event = None
                /\ last'.ret = None
                /\ UNCHANGED gmVars]_vars

\* a join added Bob to a session and sent the event for him
C31_Witness ==
    /\ last.op = "add_player_to_game"
    /\ last.ret # None
    /\ last.event # None
    /\ last.event[1].data = <<"AddPlayer", "Bob">>
    /\ last.event[1].player = 0

\* ------------------------------------------ GET /api/debug/keep_busy
\* debug_busy, first block: the write guard is taken and kept for 10 seconds
DebugBusyFirstHold ==
    /\ busy = "idle"
    /\ lock_free
    /\ ~poisoned
    /\ busy' = "first_hold"
    /\ UNCHANGED <<gmVars, poisoned, disc, sleepers, marked, last, uridVars, instance,
                   conv, req, sse>>

\* the first block ends, the guard is dropped, `time` seconds without it
DebugBusyRelease ==
    /\ busy = "first_hold"
    /\ busy' = "released"
    /\ UNCHANGED <<gmVars, poisoned, disc, sleepers, marked, last, uridVars, instance,
                   conv, req, sse>>

\* second block: the write guard is taken again and kept for 5 seconds
DebugBusySecondHold ==
    /\ busy = "released"
    /\ lock_free
    /\ ~poisoned
    /\ busy' = "second_hold"
    /\ UNCHANGED <<gmVars, poisoned, disc, sleepers, marked, last, uridVars, instance,
                   conv, req, sse>>

\* the second block ends and the request is answered
DebugBusyDone ==
    /\ busy = "second_hold"
    /\ busy' = "idle"
    /\ UNCHANGED <<gmVars, poisoned, disc, sleepers, marked, last, uridVars, instance,
                   conv, req, sse>>

BusyNext ==
    \/ \E n \in Usernames, ip \in RequestIps : CreateGame(n, ip)
    \/ \E c \in GameCodes, n \in Usernames, ip \in RequestIps : JoinGame(c, n, ip)
    \/ \E id \in UserIds : Events(id)
    \/ \E c \in GameCodes : GameCodeGuard(c)
    \/ PlayersInGame
    \/ DebugBusyFirstHold
    \/ DebugBusyRelease
    \/ DebugBusySecondHold
    \/ DebugBusyDone

BusySpec == Init /\ [][BusyNext]_vars

\* C32: while a caller keeps the lock of its slow operation, a join, a lookup
\* and a connect on a session can go on.
C32_SessionsDoNotBlock ==
    (busy \in {"first_hold", "second_hold"} /\ ~poisoned) =>
        \A c \in GameCodes :
            game_by_code(GM, c) # None =>
                /\ generate_user_id(GM) # {} =>
                      \A n \in Usernames : ENABLED JoinGame(c, n, None)
                /\ req.pc # "handler" => ENABLED GameCodeGuard(c)
                /\ \A id \in Participants(GM, c) : ENABLED Events(id)

\* ------------------------------------------------- registry consistency
\* the user records of the identity id, in the order of the vector
UserRecords(gm, id) ==
    SelectSeq(gm.users, LAMBDA u : u.user_id = id)

\* C33: delete_game(a) leaves every other live session as it was: its
\* participant list, the user record of each of its participants and its code
\* in used_game_codes.
C33_DeleteLeavesOthers ==
    [][last'.op = "delete_game" =>
        \A c \in GameCodes \ {last'.arg[1]} :
            game_by_code(GM, c) # None =>
                /\ game_by_code(GM', c) = game_by_code(GM, c)
                /\ does_game_exist(GM', c) = does_game_exist(GM, c)
                /\ \A id \in Participants(GM, c) :
                      UserRecords(GM', id) = UserRecords(GM, id)]_vars

\* C34: after any sequence of calls none of which panicked, every participant
\* of a live session has exactly one user record with its identity, and every
\* user record is the record of a participant of a live session.
C34_UsersMatchParticipants ==
    ~poisoned =>
        /\ \A c \in GameCodes : \A id \in Participants(GM, c) :
              Len(UserRecords(GM, id)) = 1
        /\ \A u \in DOMAIN users :
              \E c \in GameCodes : users[u].user_id \in Participants(GM, c)

\* C35: the codes in used_game_codes are the codes of the sessions in games:
\* does_game_exist(c) is true exactly when game_by_code(c) is a session.
C35_UsedCodesAreLiveCodes ==
    \A c \in GameCodes : does_game_exist(GM, c) <=> (game_by_code(GM, c) # None)

\* ------------------------------------------------------ timeout windows
\* invocation o began to sleep after invocation t did
SleepsSince(o, t) ==
    \E i, j \in DOMAIN sleepers : i < j /\ sleepers[i] = t /\ sleepers[j] = o

\* C36: a re-check deletes a session only when the timeout of the most recent
\* disconnect of the session is over: no invocation that began to sleep for
\* the session later is still in its sleep.
C36_FullWindowSinceLastDisconnect ==
    [][\A t \in Threads :
        (Rechecks(t) /\ disc'[t].status = "GameDeleted") =>
            ~\E o \in Threads \ {t} :
                /\ disc[o].pc = "sleep"
                /\ disc[o].game_code = disc[t].game_code
                /\ SleepsSince(o, t)]_vars

\* C37: the re-check of a disconnect deletes no session but the one the
\* disconnect began for: the session it deletes has the participant whose
\* disconnect it is.
C37_RecheckDeletesOwnSession ==
    [][\A t \in Threads :
        (Rechecks(t) /\ disc'[t].status = "GameDeleted") =>
            disc[t].user_id \in Participants(GM, disc[t].game_code)]_vars

\* --------------------------------------- GET /sse/<game_code>/<user_id>
\* GameManager::game_by_uuid_read: the game one of whose players has the uuid
game_by_uuid_read(gm, user_id) == game_by_user_id(gm, user_id)

\* GameManager::game_by_code_write: the game with the code
game_by_code_write(gm, game_code) == game_by_code(gm, game_code)

\* events, first critical section: UserAuth::from_uuid under a read guard;
\* without a game of the user the stream is declined
EventsAuth(user_id) ==
    /\ sse.pc = "idle"
    /\ lock_free
    /\ ~poisoned
    /\ LET game == game_by_uuid_read(GM, user_id)
       IN sse' = IF game = None THEN NoStream
                 ELSE [pc |-> "auth", user_id |-> user_id,
                       game_code |-> game[1].game_code]
    /\ UNCHANGED <<gmVars, poisoned, disc, sleepers, marked, last, uridVars,
                   instance, conv, req, busy>>

\* events, second critical section, under a write guard:
\* game_by_code_write(user_auth.game_code).unwrap().user_connected(user_id)
EventsMarkConnected ==
    /\ sse.pc = "auth"
    /\ lock_free
    /\ ~poisoned
    /\ IF game_by_code_write(GM, sse.game_code) = None
       THEN /\ sse' = [sse EXCEPT !.pc = "panicked"]
            /\ poisoned' = TRUE
            /\ UNCHANGED <<gmVars, marked>>
       ELSE LET r == user_connected(GM, sse.user_id)
            IN /\ SetGM(r.gm)
               /\ marked' = IF r.ret THEN marked \cup {sse.user_id} ELSE marked
               /\ sse' = NoStream
               /\ UNCHANGED poisoned
    /\ UNCHANGED <<disc, sleepers, last, uridVars, instance, conv, req, busy>>

SseNext ==
    \/ \E n \in Usernames, ip \in RequestIps : CreateGame(n, ip)
    \/ \E t \in Threads, id \in UserIds : UserDisconnectedImmediate(t, id)
    \/ \E t \in Threads : UserDisconnectedDeferred(t)
    \/ \E id \in UserIds : EventsAuth(id)
    \/ EventsMarkConnected

SseSpec == Init /\ [][SseNext]_vars

\* C38: the events handler never unwraps a missing session: after the
\* authentication it marks the participant connected or declines.
C38_EventsNeverPanics == sse.pc # "panicked"

\* ------------------------------------------------------- recovery tokens
\* C39: every token that an ip address is mapped to in urid_by_ip is in
\* used_urids, so a token register returns for a mapped address is none that
\* generate_urid can return.
C39_MappedTokensAreUsed ==
    \A k \in DOMAIN urid_by_ip : urid_by_ip[k] \in used_urids

\* ------------------------------------------------------------ game master
\* game.set_game_master(id) on the game of the code, under the write guard
SetGameMaster(game_code, id) ==
    /\ lock_free
    /\ ~poisoned
    /\ game_index_by_code(GM, game_code) # 0
    /\ games' = [games EXCEPT ![game_index_by_code(GM, game_code)] =
                    set_game_master(@, id)]
    /\ UNCHANGED <<users, used_user_ids, used_game_codes, poisoned, disc,
                   sleepers, marked, last, uridVars, instance, conv, req, busy,
                   sse>>

\* the disconnects of OwnerSpec run one at a time, as the invocation 1
OwnerNext ==
    \/ \E n \in Usernames, ip \in RequestIps : CreateGame(n, ip)
    \/ \E c \in GameCodes, n \in Usernames, ip \in RequestIps : JoinGame(c, n, ip)
    \/ \E id \in UserIds : Events(id)
    \/ \E id \in UserIds : UserDisconnectedImmediate(1, id)
    \/ UserDisconnectedDeferred(1)
    \/ \E c \in GameCodes, id \in UserIds : SetGameMaster(c, id)

OwnerSpec == Init /\ [][OwnerNext]_vars

\* the positions of the game masters among the players of a game
GameMasters(game) ==
    {i \in DOMAIN game.players : game.players[i].game_master}

\* C40: every session of the registry that has participants has exactly one
\* game master, from create_game on and through every join, connect,
\* disconnect and set_game_master, until it is deleted.
C40_ExactlyOneOwner ==
    \A g \in DOMAIN games :
        games[g].players # <<>> => Cardinality(GameMasters(games[g])) = 1

\* a session whose game master is a participant who joined it later, while
\* its creator is disconnected
C40_Witness ==
    \E g \in DOMAIN games :
        /\ Len(games[g].players) >= 2
        /\ GameMasters(games[g]) = {2}
        /\ \E t \in Threads : disc[t].pc = "done" /\ disc[t].status = "GameAlive"

=============================================================================
